---- MODULE Spec2Model ----
(***************************************************************************)
(* Semi-monthly budget: the date clamp, the paycheck assigner, the         *)
(* per-paycheck totals, the localStorage persistence adapter and the       *)
(* event handlers of SemiMonthlyBudgetApp (src/unnamed/part_000).          *)
(***************************************************************************)
EXTENDS Integers, Sequences, FiniteSets, TLC

VARIABLES
    state,       \* the BudgetState held by useState: [income, expenses]
    storage,     \* the text stored under STORAGE_KEY in localStorage
    year,        \* the viewed year (useState)
    monthIndex,  \* the viewed month, 0..11 (useState)
    pending,     \* TRUE while the effect useEffect(saveState, [state]) is scheduled
    alertMsg,    \* what the latest event handler showed with alert(), "" for nothing
    call         \* the latest direct call of a pure function: its arguments and result

vars == <<state, storage, year, monthIndex, pending, alertMsg, call>>

-----------------------------------------------------------------------------
(* Bounds of the model *)

\* the add dialog is used only while the collection holds fewer expenses than this
MaxExpenses == 2
\* the nominal days tried by the clamp run from 1 - MaxOver to 31 + MaxOver
MaxOver == 3

Min(a, b) == IF a < b THEN a ELSE b
Max(a, b) == IF a > b THEN a ELSE b

-----------------------------------------------------------------------------
(* Utilities: clampDay and assignToPaycheck *)

\* new Date(year, monthIndex, 1): a year 0..99 means 1900 + year
DateYear(y) == IF y >= 0 /\ y <= 99 THEN 1900 + y ELSE y

IsLeap(y) == (y % 4 = 0 /\ y % 100 # 0) \/ y % 400 = 0

\* date-fns getDaysInMonth(new Date(year, monthIndex, 1))
getDaysInMonth(y, m) ==
    IF m = 1 THEN (IF IsLeap(DateYear(y)) THEN 29 ELSE 28)
    ELSE IF m \in {3, 5, 8, 10} THEN 30
    ELSE 31

clampDayNoFloor(day, y, m) == Min(day, getDaysInMonth(y, m))

\* Math.min(Math.max(1, day), dim)
clampDay(day, y, m) ==
    LET dim == getDaysInMonth(y, m)
    IN  Min(Max(1, day), dim)

\* the value of a function that falls off its end; no paycheck label equals it
Undefined == 0

assignToPaycheckOpenRight(dueDay, p1, p2, y, m) ==
    LET d1 == clampDay(p1, y, m)
        d2 == clampDay(p2, y, m)
        first == Min(d1, d2)
        second == Max(d1, d2)
    IN  IF dueDay >= first /\ dueDay < second THEN 1
        ELSE IF dueDay >= second \/ dueDay < first THEN 2
        ELSE Undefined

assignToPaycheckNoWrap(dueDay, p1, p2, y, m) ==
    LET d1 == clampDay(p1, y, m)
        d2 == clampDay(p2, y, m)
        first == Min(d1, d2)
        second == Max(d1, d2)
    IN  IF dueDay > first /\ dueDay <= second THEN 1
        ELSE IF dueDay > second THEN 2
        ELSE Undefined

assignToPaycheckSwapped(dueDay, p1, p2, y, m) ==
    LET d1 == clampDay(p1, y, m)
        d2 == clampDay(p2, y, m)
        first == Min(d1, d2)
        second == Max(d1, d2)
    IN  IF dueDay > first /\ dueDay <= second THEN 2
        ELSE IF dueDay > second \/ dueDay <= first THEN 1
        ELSE Undefined

assignToPaycheck(dueDay, p1, p2, y, m) ==
    LET d1 == clampDay(p1, y, m)
        d2 == clampDay(p2, y, m)
        first == Min(d1, d2)
        second == Max(d1, d2)
    IN  IF dueDay > first /\ dueDay <= second THEN 1
        ELSE IF dueDay > second \/ dueDay <= first THEN 2
        ELSE Undefined

-----------------------------------------------------------------------------
(* JSON text and values.  A text is absent (getItem returns null), empty,    *)
(* not JSON, or the JSON text of a value; a value carries its type in t.    *)

AbsentText == [kind |-> "absent"]
EmptyText == [kind |-> "empty"]
GarbageText == [kind |-> "garbage"]
JsonText(v) == [kind |-> "json", val |-> v]

JMissing == [t |-> "missing"]          \* the member is not in the object
JNull == [t |-> "null"]
JNumber(n) == [t |-> "number", n |-> n]
JRecord(r) == [t |-> "object", v |-> r]
JArray(items) == [t |-> "array", items |-> items]
JObject(inc, exps) == [t |-> "object", income |-> inc, expenses |-> exps]

\* !x is false
Truthy(j) ==
    CASE j.t \in {"missing", "null"} -> FALSE
      [] j.t = "number" -> j.n # 0
      [] OTHER -> TRUE

\* Array.isArray(x)
IsArray(j) == j.t = "array"

\* the object a valid document parses to, and its JSON value
FromJson(j) == [income |-> j.income.v, expenses |-> j.expenses.items]
ToJson(s) == JObject(JRecord(s.income), JArray(s.expenses))

\* JSON.stringify(state)
Stringify(s) == JsonText(ToJson(s))

-----------------------------------------------------------------------------
(* Persistence adapter: loadState and saveState *)

DefaultIncome == [paycheckDays |-> <<1, 16>>, netPerPaycheck |-> 20000, extras |-> 0]

Expense(id, name, amount, dueDay, category) ==
    [id |-> id, name |-> name, amount |-> amount, dueDay |-> dueDay,
     category |-> category]

\* the catch block of loadState; ids are the seven results of uid()
DefaultDataset(ids) ==
    [income |-> DefaultIncome,
     expenses |-> <<
        Expense(ids[1], "Rent", 10000, 1, "fixed"),
        Expense(ids[2], "Electric", 2500, 6, "fixed"),
        Expense(ids[3], "Water", 600, 10, "fixed"),
        Expense(ids[4], "Groceries", 6000, 18, "variable"),
        Expense(ids[5], "Mobile Plan", 999, 20, "fixed"),
        Expense(ids[6], "Debt Snowball", 3000, 25, "debt"),
        Expense(ids[7], "Emergency Fund", 2000, 30, "savings") >>]

TryLoadNoArrayCheck(raw) ==
    IF raw.kind # "json" \/ raw.val.t # "object" \/ ~Truthy(raw.val.income)
    THEN [ok |-> FALSE, error |-> "invalid"]
    ELSE [ok |-> TRUE,
          value |-> [income |-> raw.val.income.v,
                     expenses |-> IF IsArray(raw.val.expenses)
                                  THEN raw.val.expenses.items ELSE <<>>]]

\* the try block of loadState: the value returned, or the error thrown
TryLoad(raw) ==
    IF raw.kind \in {"absent", "empty"} THEN [ok |-> FALSE, error |-> "empty"]
    ELSE IF raw.kind = "garbage" THEN [ok |-> FALSE, error |-> "SyntaxError"]
    ELSE LET parsed == raw.val
         IN  IF parsed.t = "null" THEN [ok |-> FALSE, error |-> "TypeError"]
             ELSE IF parsed.t # "object" THEN [ok |-> FALSE, error |-> "invalid"]
             ELSE IF ~Truthy(parsed.income) \/ ~IsArray(parsed.expenses)
                  THEN [ok |-> FALSE, error |-> "invalid"]
             ELSE [ok |-> TRUE, value |-> FromJson(parsed)]

loadStateRejectEmpty(raw, ids) ==
    LET r == TryLoad(raw)
    IN  IF r.ok /\ r.value.expenses # <<>> THEN r.value ELSE DefaultDataset(ids)

loadState(raw, ids) ==
    LET r == TryLoad(raw)
    IN  IF r.ok THEN r.value ELSE DefaultDataset(ids)

saveStateExpensesOnly(s) == Stringify([s EXCEPT !.income = DefaultIncome])

\* the text saveState(state) puts under STORAGE_KEY
saveState(s) == Stringify(s)

-----------------------------------------------------------------------------
(* Inputs the environment supplies *)

\* what the seven calls of uid() return for the default expenses
DefaultIdDraws == {<<1, 2, 3, 4, 5, 6, 7>>, <<1, 2, 3, 4, 5, 6, 8>>}
\* what uid() returns in the add dialog; nothing makes it differ from the ids in use
AddIdDraws == {1, 8}

Years == {2023, 2024}
Months == {0, 1}

eLoan == Expense(21, "Loan", 1200, 12, "debt")
eNet == Expense(21, "Net", 900, 20, "fixed")
eGym == [id |-> 22, name |-> "Gym", amount |-> 700, category |-> "variable"]
ImportedIncome == [paycheckDays |-> <<15, 30>>, netPerPaycheck |-> 25000, extras |-> 500]

\* documents of the required shape; their income is a full IncomeConfig
ValidDocs ==
    { JObject(JRecord(ImportedIncome), JArray(<<>>)),
      JObject(JRecord(ImportedIncome), JArray(<<eLoan>>)),
      JObject(JRecord(DefaultIncome), JArray(<<eLoan, eNet>>)),
      JObject(JRecord(DefaultIncome), JArray(<<eGym>>)) }

\* documents that miss the required shape
InvalidDocs ==
    { JNull, JNumber(5),
      JObject(JMissing, JArray(<<eLoan>>)),
      JObject(JNull, JArray(<<eLoan>>)),
      JObject(JRecord(ImportedIncome), JMissing),
      JObject(JRecord(ImportedIncome), JRecord(ImportedIncome)) }

\* the texts a file handed to the import can hold
ImportTexts == {EmptyText, GarbageText} \cup {JsonText(d) : d \in ValidDocs \cup InvalidDocs}

\* the texts localStorage can hold when loadState reads it
StoredTexts == {AbsentText} \cup ImportTexts

\* the texts localStorage holds at startup: nothing, a damaged text, or what an
\* earlier session stored
StartTexts ==
    { AbsentText, GarbageText, JsonText(JNull),
      JsonText(JObject(JRecord(ImportedIncome), JArray(<<>>))),
      JsonText(JObject(JRecord(ImportedIncome), JArray(<<eLoan>>))) }

-----------------------------------------------------------------------------
(* Computations of SemiMonthlyBudgetApp *)

paycheckDaysClamped(s, y, m) ==
    << clampDay(s.income.paycheckDays[1], y, m),
       clampDay(s.income.paycheckDays[2], y, m) >>

\* e.dueDay of an expense without the member is undefined: both comparisons of
\* assignToPaycheck are then false and it returns nothing
PaycheckOf(e, s, y, m) ==
    LET pd == paycheckDaysClamped(s, y, m)
    IN  IF "dueDay" \in DOMAIN e
        THEN assignToPaycheck(e.dueDay, pd[1], pd[2], y, m)
        ELSE Undefined

\* assigned: every expense with its paycheck
assigned(s, y, m) ==
    [i \in 1..Len(s.expenses) |->
        [e |-> s.expenses[i], paycheck |-> PaycheckOf(s.expenses[i], s, y, m)]]

RECURSIVE SumAmounts(_)
SumAmounts(items) ==
    IF items = <<>> THEN 0
    ELSE items[1].amount + SumAmounts(Tail(items))

RECURSIVE TotalOf(_, _)
\* assigned.filter((e) => e.paycheck === k).reduce((s, e) => s + e.amount, 0)
TotalOf(as, k) ==
    IF as = <<>> THEN 0
    ELSE (IF as[1].paycheck = k THEN as[1].e.amount ELSE 0) + TotalOf(Tail(as), k)

p1Total == TotalOf(assigned(state, year, monthIndex), 1)
p2Total == TotalOf(assigned(state, year, monthIndex), 2)

-----------------------------------------------------------------------------
(* The add dialog: Number(text) of the form fields, and submit *)

\* Number(text): an integer v, the non-integer v + 1/2, or NaN
NumberOf(text) ==
    CASE text = "500" -> [k |-> "int", v |-> 500]
      [] text = "0" -> [k |-> "int", v |-> 0]
      [] text = "15" -> [k |-> "int", v |-> 15]
      [] text = "32" -> [k |-> "int", v |-> 32]
      [] text = "1.5" -> [k |-> "frac", v |-> 1]
      [] text = "" -> [k |-> "int", v |-> 0]
      [] text = "Infinity" -> [k |-> "inf"]
      [] OTHER -> [k |-> "nan"]

IsFinite(n) == n.k \notin {"nan", "inf"}
IsInteger(n) == n.k = "int"
Positive(n) == n.k = "inf" \/ (n.k # "nan" /\ n.v > 0)

\* name.trim()
Trim(text) == IF text = "  " THEN "" ELSE text

\* the forms tried; an accepted amount is an integer here
AddForms ==
    [name : {"Gym", "  ", ""}, amount : {"500", "0", "abc", "Infinity"},
     dueDay : {"15", "32", "1.5"}, category : {"fixed"}]

RefusedNoSignTest(form) ==
    LET n == Trim(form.name)
        a == NumberOf(form.amount)
        d == NumberOf(form.dueDay)
    IN  n = "" \/ ~IsFinite(a) \/ ~IsInteger(d)

\* submit() returns early, without calling onAdd
Refused(form) ==
    LET n == Trim(form.name)
        a == NumberOf(form.amount)
        d == NumberOf(form.dueDay)
    IN  n = "" \/ ~IsFinite(a) \/ ~Positive(a) \/ ~IsInteger(d)

\* the expense submit() hands to onAdd
NewExpense(form, id) ==
    Expense(id, Trim(form.name), NumberOf(form.amount).v, NumberOf(form.dueDay).v,
            form.category)

-----------------------------------------------------------------------------
(* State, and the event handlers.  A handler that calls setState schedules   *)
(* the effect; the effect runs before the next event is handled.             *)

NoCall == [fn |-> "none"]

Init ==
    /\ \E raw \in StartTexts : \E ids \in DefaultIdDraws :
          /\ storage = raw
          /\ state = loadState(raw, ids)
    /\ year \in Years
    /\ monthIndex \in Months
    /\ pending = TRUE
    /\ alertMsg = ""
    /\ call = NoCall

\* useEffect(() => saveState(state), [state])
FlushEffect ==
    /\ pending
    /\ storage' = saveState(state)
    /\ pending' = FALSE
    /\ UNCHANGED <<state, year, monthIndex, alertMsg, call>>

\* setState(next): a new state object, so the effect is scheduled
SetState(next) ==
    /\ state' = next
    /\ pending' = TRUE

\* the income parts the input fields produce: Number(text) || 0, Number(text) || 1
IncomeParts(s) ==
    { [netPerPaycheck |-> 15000],
      [paycheckDays |-> <<30, s.income.paycheckDays[2]>>],
      [paycheckDays |-> <<s.income.paycheckDays[1], 30>>] }

\* { ...s.income, ...part }
Merge(inc, part) ==
    [f \in DOMAIN inc |-> IF f \in DOMAIN part THEN part[f] ELSE inc[f]]

updateIncome(part) ==
    /\ ~pending
    /\ SetState([state EXCEPT !.income = Merge(state.income, part)])
    /\ alertMsg' = ""
    /\ UNCHANGED <<storage, year, monthIndex, call>>

\* AddExpenseDialog.submit with addExpense as onAdd
submit(form, id) ==
    /\ ~pending
    /\ Len(state.expenses) < MaxExpenses
    /\ IF Refused(form)
       THEN UNCHANGED <<state, pending>>
       ELSE SetState([state EXCEPT !.expenses = Append(@, NewExpense(form, id))])
    /\ alertMsg' = ""
    /\ UNCHANGED <<storage, year, monthIndex, call>>

\* s.expenses.filter((e) => e.id !== id)
WithoutId(items, id) == SelectSeq(items, LAMBDA e : e.id # id)

deleteExpense(id) ==
    /\ ~pending
    /\ SetState([state EXCEPT !.expenses = WithoutId(@, id)])
    /\ alertMsg' = ""
    /\ UNCHANGED <<storage, year, monthIndex, call>>

\* the try block of reader.onload: the document accepted, or the error thrown
TryImport(text) ==
    IF text.kind = "empty" THEN [ok |-> FALSE, message |-> "Unexpected end of JSON input"]
    ELSE IF text.kind = "garbage" THEN [ok |-> FALSE, message |-> "Unexpected token"]
    ELSE LET parsed == text.val
         IN  IF ~Truthy(parsed) \/ parsed.t # "object"
                THEN [ok |-> FALSE, message |-> "Invalid file"]
             ELSE IF ~Truthy(parsed.income) \/ ~IsArray(parsed.expenses)
                THEN [ok |-> FALSE, message |-> "Invalid file"]
             ELSE [ok |-> TRUE, value |-> FromJson(parsed)]

onImportUnchecked(text) ==
    /\ ~pending
    /\ IF text.kind = "json" /\ text.val.t = "object"
       THEN /\ SetState([income |-> IF text.val.income.t = "object"
                                     THEN text.val.income.v ELSE state.income,
                         expenses |-> IF text.val.expenses.t = "array"
                                      THEN text.val.expenses.items ELSE <<>>])
            /\ alertMsg' = ""
       ELSE /\ alertMsg' = "Import failed: Invalid file"
            /\ UNCHANGED <<state, pending>>
    /\ UNCHANGED <<storage, year, monthIndex, call>>

\* ImportExport.onImport, from reader.onload on
onImport(text) ==
    /\ ~pending
    /\ LET r == TryImport(text)
       IN  IF r.ok
           THEN /\ SetState(r.value)
                /\ alertMsg' = ""
           ELSE /\ alertMsg' = "Import failed: " \o r.message
                /\ UNCHANGED <<state, pending>>
    /\ UNCHANGED <<storage, year, monthIndex, call>>

\* the Reset button, confirmed or not
reset(confirmed, ids) ==
    /\ ~pending
    /\ IF confirmed
       THEN LET fresh == loadState(storage, ids)
            IN  SetState([fresh EXCEPT !.expenses = <<>>])
       ELSE UNCHANGED <<state, pending>>
    /\ alertMsg' = ""
    /\ UNCHANGED <<storage, year, monthIndex, call>>

setYear(y) ==
    /\ ~pending
    /\ year' = y
    /\ alertMsg' = ""
    /\ UNCHANGED <<state, storage, monthIndex, pending, call>>

setMonthIndex(m) ==
    /\ ~pending
    /\ monthIndex' = m
    /\ alertMsg' = ""
    /\ UNCHANGED <<state, storage, year, pending, call>>

Next ==
    \/ FlushEffect
    \/ \E part \in IncomeParts(state) : updateIncome(part)
    \/ \E form \in AddForms : \E id \in AddIdDraws : submit(form, id)
    \/ \E i \in 1..Len(state.expenses) : deleteExpense(state.expenses[i].id)
    \/ \E text \in ImportTexts : onImport(text)
    \/ \E confirmed \in BOOLEAN : \E ids \in DefaultIdDraws : reset(confirmed, ids)
    \/ \E y \in Years : setYear(y)
    \/ \E m \in Months : setMonthIndex(m)

Spec == Init /\ [][Next]_vars

-----------------------------------------------------------------------------
(* Direct calls of the pure functions, with arguments from bounded sets;     *)
(* each behaviour makes one call.                                            *)

\* the longest expense sequence saved and loaded back
MaxSaved == 2

DayInputs == (1 - MaxOver)..(31 + MaxOver)
YearInputs == {0, 96, 1900, 2000, 2023, 2024}
PaydayInputs == {1, 15, 16, 30, 31}
ViewMonths == {0, 1, 3}

eRent == Expense(31, "Rent", 10000, 1, "fixed")
eFund == Expense(32, "Emergency Fund", 2000, 30, "savings")
ZeroIncome == [paycheckDays |-> <<16, 16>>, netPerPaycheck |-> 0, extras |-> 0]

RECURSIVE SeqsUpTo(_, _)
SeqsUpTo(S, n) ==
    IF n = 0 THEN {<<>>}
    ELSE LET shorter == SeqsUpTo(S, n - 1)
         IN  shorter \cup {Append(q, x) : q \in shorter, x \in S}

UniqueIds(items) ==
    \A i, j \in 1..Len(items) : items[i].id = items[j].id => i = j

\* well-formed BudgetStates: an income record, well-formed expenses, distinct ids
WellFormedStates ==
    [income : {DefaultIncome, ImportedIncome, ZeroIncome},
     expenses : {q \in SeqsUpTo({eLoan, eRent, eFund}, MaxSaved) : UniqueIds(q)}]

InitFn ==
    /\ state = DefaultDataset(<<1, 2, 3, 4, 5, 6, 7>>)
    /\ storage = AbsentText
    /\ year = 2023
    /\ monthIndex = 0
    /\ pending = FALSE
    /\ alertMsg = ""
    /\ call = NoCall

CallClampDay ==
    /\ call = NoCall
    /\ \E day \in DayInputs : \E y \in YearInputs : \E m \in 0..11 :
          call' = [fn |-> "clampDay", day |-> day, year |-> y, monthIndex |-> m,
                   result |-> clampDay(day, y, m)]
    /\ UNCHANGED <<state, storage, year, monthIndex, pending, alertMsg>>

\* the paydays are clamped to the viewed month first, as paycheckDaysClamped does
CallAssignToPaycheck ==
    /\ call = NoCall
    /\ \E d \in 1..31 : \E n1 \in PaydayInputs : \E n2 \in PaydayInputs :
       \E y \in Years : \E m \in ViewMonths :
          LET p1 == clampDay(n1, y, m)
              p2 == clampDay(n2, y, m)
          IN  call' = [fn |-> "assignToPaycheck", dueDay |-> d, paycheckDays |-> <<n1, n2>>,
                       p1 |-> p1, p2 |-> p2, year |-> y, monthIndex |-> m,
                       result |-> assignToPaycheck(d, p1, p2, y, m)]
    /\ UNCHANGED <<state, storage, year, monthIndex, pending, alertMsg>>

CallLoadState ==
    /\ call = NoCall
    /\ \E raw \in StoredTexts : \E ids \in DefaultIdDraws :
          call' = [fn |-> "loadState", raw |-> raw, ids |-> ids,
                   result |-> loadState(raw, ids)]
    /\ UNCHANGED <<state, storage, year, monthIndex, pending, alertMsg>>

\* saveState(s), then loadState() of what was stored
CallSaveLoad ==
    /\ call = NoCall
    /\ \E s \in WellFormedStates : \E ids \in DefaultIdDraws :
          call' = [fn |-> "saveLoad", arg |-> s, ids |-> ids,
                   result |-> loadState(saveState(s), ids)]
    /\ UNCHANGED <<state, storage, year, monthIndex, pending, alertMsg>>

NextFn ==
    \/ CallClampDay
    \/ CallAssignToPaycheck
    \/ CallLoadState
    \/ CallSaveLoad

SpecFn == InitFn /\ [][NextFn]_vars

-----------------------------------------------------------------------------
(* Properties *)

\* C1: for every due day 1..31 and every pair of paydays clamped to the viewed
\* month, assignToPaycheck returns 1 or 2, never nothing, and returns 1 exactly
\* when first < dueDay <= second, first and second being the smaller and the
\* larger clamped payday.
C1_AssignTotal ==
    call.fn = "assignToPaycheck" =>
        LET first == IF call.p1 <= call.p2 THEN call.p1 ELSE call.p2
            second == IF call.p1 <= call.p2 THEN call.p2 ELSE call.p1
        IN  /\ call.result \in {1, 2}
            /\ call.result # Undefined
            /\ call.result = 1 <=> (first < call.dueDay /\ call.dueDay <= second)

C1_Witness ==
    /\ call.fn = "assignToPaycheck"
    /\ call.paycheckDays = <<16, 1>>
    /\ call.dueDay = 16
    /\ call.result = 1

\* C2 as claimed: for all clamped paydays, the same day twice included, the
\* first payday is assigned to paycheck 2 and the second payday to paycheck 1.
C2_BoundaryAsClaimed ==
    call.fn = "assignToPaycheck" =>
        LET first == IF call.p1 <= call.p2 THEN call.p1 ELSE call.p2
            second == IF call.p1 <= call.p2 THEN call.p2 ELSE call.p1
        IN  /\ call.dueDay = first => call.result = 2
            /\ call.dueDay = second => call.result = 1

\* C2 amended: the first payday is assigned to paycheck 2; the second payday is
\* assigned to paycheck 1 when the two clamped paydays differ, and to paycheck 2
\* when they are the same day.
C2_Boundary ==
    call.fn = "assignToPaycheck" =>
        LET first == IF call.p1 <= call.p2 THEN call.p1 ELSE call.p2
            second == IF call.p1 <= call.p2 THEN call.p2 ELSE call.p1
        IN  /\ call.dueDay = first => call.result = 2
            /\ (call.dueDay = second /\ first # second) => call.result = 1
            /\ (call.dueDay = second /\ first = second) => call.result = 2

\* nominal paydays 30 and 31 both clamp to 28 February
C2_Witness ==
    /\ call.fn = "assignToPaycheck"
    /\ call.paycheckDays = <<30, 31>>
    /\ call.p1 = 28 /\ call.p2 = 28
    /\ call.dueDay = 28
    /\ call.result = 2

\* C3: clampDay(d, year, monthIndex) is max(1, min(d, daysInMonth)) for every
\* integer d, below 1 and above 31 included: it lies in 1..daysInMonth and is d
\* itself when d does.
C3_ClampDay ==
    call.fn = "clampDay" =>
        LET dim == getDaysInMonth(call.year, call.monthIndex)
            capped == IF call.day < dim THEN call.day ELSE dim
        IN  /\ call.result = (IF capped > 1 THEN capped ELSE 1)
            /\ call.result >= 1 /\ call.result <= dim
            /\ (call.day >= 1 /\ call.day <= dim) => call.result = call.day

C3_Witness ==
    /\ call.fn = "clampDay"
    /\ call.day < 1
    /\ call.monthIndex = 1
    /\ call.result = 1

\* C4: in every reachable state the two per-paycheck expense totals add up to
\* the sum of all expense amounts: every expense counts in exactly one period.
C4_TotalsPartition ==
    p1Total + p2Total = SumAmounts(state.expenses)

Malformed(text) ==
    \/ text.kind # "json"
    \/ text.val.t # "object"
    \/ "income" \notin DOMAIN text.val
    \/ text.val.income.t \in {"missing", "null"}
    \/ text.val.expenses.t # "array"

\* C6: an import of a text that does not parse, or of a document without an
\* income or without a sequence of expenses, shows a failure message and leaves
\* the BudgetState exactly as it was, with nothing scheduled to be written.
C6_ImportAllOrNothing ==
    [][\A text \in ImportTexts :
          (onImport(text) /\ Malformed(text)) =>
              /\ state' = state
              /\ pending' = pending
              /\ storage' = storage
              /\ alertMsg' \in {"Import failed: Unexpected end of JSON input",
                                "Import failed: Unexpected token",
                                "Import failed: Invalid file"}]_vars

C6_Witness ==
    /\ alertMsg = "Import failed: Invalid file"
    /\ ~pending
    /\ state.income.netPerPaycheck = 15000
    /\ Len(state.expenses) = 3

\* C7: whenever no effect is pending, that is after every mutation has been
\* processed, the text under the storage key is the serialization of the whole
\* current BudgetState.
C7_WriteThrough ==
    ~pending => storage = JsonText(JObject(JRecord(state.income), JArray(state.expenses)))

C7_Witness ==
    /\ ~pending
    /\ state.income = [paycheckDays |-> <<30, 16>>, netPerPaycheck |-> 15000, extras |-> 0]
    /\ Len(state.expenses) = 1
    /\ state.expenses[1].name = "Gym"
    /\ "dueDay" \in DOMAIN state.expenses[1]
    /\ state.expenses[1].dueDay = 32
    /\ storage.val.income.v = state.income
    /\ storage.val.expenses.items = state.expenses

\* C8: saving a well-formed BudgetState, its expenses possibly empty, and then
\* loading returns that state: the same income and the same expenses in the same
\* order, not the default dataset.
C8_RoundTrip ==
    call.fn = "saveLoad" =>
        /\ call.result.income = call.arg.income
        /\ call.result.expenses = call.arg.expenses
        /\ Len(call.result.expenses) = Len(call.arg.expenses)

C8_Witness ==
    /\ call.fn = "saveLoad"
    /\ call.arg.expenses = <<>>
    /\ call.arg.income.netPerPaycheck = 0
    /\ call.result = call.arg

\* the stored text is absent, does not parse, or parses to a value without an
\* income (missing or null) or whose expenses are not a sequence
Corrupt(raw) ==
    \/ raw.kind # "json"
    \/ raw.val.t # "object"
    \/ "income" \notin DOMAIN raw.val
    \/ raw.val.income.t \in {"missing", "null"}
    \/ raw.val.expenses.t # "array"

\* C9: loadState returns the default dataset (paydays 1 and 16, 20000 net, no
\* extras, the seven default expenses) when the stored text is absent, does not
\* parse or lacks the shape, and the parsed stored state in every other case.
C9_LoadState ==
    call.fn = "loadState" =>
        IF Corrupt(call.raw)
        THEN /\ call.result.income
                  = [paycheckDays |-> <<1, 16>>, netPerPaycheck |-> 20000, extras |-> 0]
             /\ [i \in 1..Len(call.result.expenses) |->
                    <<call.result.expenses[i].name, call.result.expenses[i].amount,
                      call.result.expenses[i].dueDay, call.result.expenses[i].category>>]
                  = << <<"Rent", 10000, 1, "fixed">>,
                       <<"Electric", 2500, 6, "fixed">>,
                       <<"Water", 600, 10, "fixed">>,
                       <<"Groceries", 6000, 18, "variable">>,
                       <<"Mobile Plan", 999, 20, "fixed">>,
                       <<"Debt Snowball", 3000, 25, "debt">>,
                       <<"Emergency Fund", 2000, 30, "savings">> >>
             /\ \A i \in 1..7 : call.result.expenses[i].id = call.ids[i]
        ELSE /\ call.result.income = call.raw.val.income.v
             /\ call.result.expenses = call.raw.val.expenses.items

C9_Witness ==
    /\ call.fn = "loadState"
    /\ call.raw = JsonText(JNull)
    /\ Len(call.result.expenses) = 7
    /\ call.result.income.paycheckDays = <<1, 16>>

\* C10: in every reachable state every expense has amount > 0 and a due day in
\* 1..31, and no two expenses share an id.
C10_DataModelInvariant ==
    /\ \A i \in 1..Len(state.expenses) :
          /\ state.expenses[i].amount > 0
          /\ "dueDay" \in DOMAIN state.expenses[i]
          /\ state.expenses[i].dueDay >= 1
          /\ state.expenses[i].dueDay <= 31
    /\ \A i, j \in 1..Len(state.expenses) :
          state.expenses[i].id = state.expenses[j].id => i = j

\* the form has an empty or whitespace-only name, an amount that is not a
\* number, not finite or not above zero, or a due day that is not an integer
InvalidForm(form) ==
    \/ form.name \in {"", "  "}
    \/ form.amount \in {"abc", "Infinity"}
    \/ (NumberOf(form.amount).k = "int" /\ NumberOf(form.amount).v <= 0)
    \/ form.dueDay = "1.5"

InvalidForms == {f \in AddForms : InvalidForm(f)}

C12_ResetToDefault ==
    [][\A ids \in DefaultIdDraws :
          reset(TRUE, ids) =>
              /\ state'.expenses = <<>>
              /\ state'.income
                   = [paycheckDays |-> <<1, 16>>, netPerPaycheck |-> 20000, extras |-> 0]]_vars

\* the sequence without its j-th element
RemoveAt(items, j) == SubSeq(items, 1, j - 1) \o SubSeq(items, j + 1, Len(items))

\* the ids of the rows shown, and one id no expense has
DeleteIds == {state.expenses[i].id : i \in 1..Len(state.expenses)} \cup {99}

\* C13: deleting an expense by id removes the record with that id and nothing
\* else: the other expenses stay, in order and unchanged, and so does the income;
\* when no expense has the id the BudgetState is unchanged.
C13_DeleteRemovesOne ==
    [][\A id \in DeleteIds :
          deleteExpense(id) =>
              /\ state'.income = state.income
              /\ IF \E j \in 1..Len(state.expenses) : state.expenses[j].id = id
                 THEN \E j \in 1..Len(state.expenses) :
                         /\ state.expenses[j].id = id
                         /\ state'.expenses = RemoveAt(state.expenses, j)
                 ELSE state'.expenses = state.expenses]_vars

====
